---------------------------- MODULE Spec2Model ----------------------------
(***************************************************************************)
(* A model of the rocket trajectory simulation: scripts/run_simulation.py  *)
(* (load_rocket_config, run_simulation), src/core/rocket.py (Rocket),      *)
(* src/core/atmosphere.py (get_air_density) and src/core/constants.py.     *)
(*                                                                         *)
(* NUMBERS.  The program computes in IEEE-754 binary64.  Two kinds of      *)
(* quantities are modelled differently:                                    *)
(*                                                                         *)
(*  - current_time, mass, current_propellant_mass and the consumed mass    *)
(*    decide branches by exact comparison (t <= burn_time, t < duration,   *)
(*    consumed > propellant, mass < dry_mass), so they are modelled as     *)
(*    binary64 values, bit for bit.  A double x that is a whole number of  *)
(*    2^-56 is written as the pair <<n, e>> with                           *)
(*         x = n/10 + e / (5 * 2^56),                                      *)
(*    that is 5 * 2^56 * x = n * 2^55 + e: n counts tenths and e is the    *)
(*    (small) distance of x from n/10.  0.1 is <<1, 2>>, 0.5 is <<5, 0>>.  *)
(*    RoundDouble rounds an exact result to 53 significant bits, ties to   *)
(*    even, as the hardware does.                                          *)
(*                                                                         *)
(*  - forces, acceleration, velocity and position are fixed point:         *)
(*    micronewtons, cm/s^2, cm/s and cm, with floor division where the     *)
(*    program divides.  The mass used in F = m * a is the mass in tenths   *)
(*    of a kilogram (n of the pair).                                       *)
(*                                                                         *)
(* SAMPLES.  The six lists of samples are only appended to while the loop  *)
(* runs and are not read before the function returns.  The state holds the *)
(* most recent SampleWindow entries of each list; `dropped` counts the     *)
(* older entries that have left the window, so that entry i of a list is   *)
(* sample number dropped + i - 1 of the output.                            *)
(***************************************************************************)
EXTENDS Integers, Sequences, FiniteSets, TLC

(***************************************************************************)
(* binary64 arithmetic on pairs <<n, e>>                                   *)
(***************************************************************************)
RECURSIVE Pow2(_)
Pow2(k) == IF k = 0 THEN 1 ELSE 2 * Pow2(k - 1)

\* 2^m mod 5, for m >= 0
Pow2Mod5(m) == <<1, 2, 4, 3>>[(m % 4) + 1]

\* The exponent j of the unit in the last place 2^(j-56) of the positive
\* value <<n, e>>: the largest j with 2^(52+j) <= (n * 2^55 + e) / 5, and
\* 0 when the value is below 2^53 units and therefore exact.
RECURSIVE Binade(_, _, _)
Binade(n, e, j) ==
    IF (5 * Pow2(j + 1) < 8 * n) \/ (5 * Pow2(j + 1) = 8 * n /\ e >= 0)
    THEN Binade(n, e, j + 1)
    ELSE j

\* The exact value <<n, e>> (n >= 0) rounded to the nearest binary64, ties
\* to even; the result is the e of the rounded value (n is kept).  The
\* binade is bound once (a one-element set) and then used as a value.
RoundDouble(n, e) ==
    LET Rounded(j, ulp) ==
            LET r     == (((ulp * (((n % 5) * Pow2Mod5(55 - j)) % 5)) + e) % (5 * ulp)) \div 5
                r2    == (((2 * ulp * (((n % 5) * Pow2Mod5(54 - j)) % 5)) + e) % (10 * ulp)) \div 5
                odd   == r2 >= ulp
                half  == ulp \div 2
            IN  IF j = 0 THEN e
                ELSE IF r < half \/ (r = half /\ ~odd) THEN e - 5 * r
                ELSE e + 5 * (ulp - r)
    IN  CHOOSE z \in {Rounded(j, Pow2(j)) : j \in {Binade(n, e, 0)}} : TRUE

DblAdd(a, b) == <<a[1] + b[1], RoundDouble(a[1] + b[1], a[2] + b[2])>>
DblSub(a, b) == <<a[1] - b[1], RoundDouble(a[1] - b[1], a[2] - b[2])>>
\* f * d for a whole number f held in a double
DblMulInt(f, d) == <<f * d[1], RoundDouble(f * d[1], f * d[2])>>
DblLt(a, b)  == a[1] < b[1] \/ (a[1] = b[1] /\ a[2] < b[2])
DblLeq(a, b) == a[1] < b[1] \/ (a[1] = b[1] /\ a[2] <= b[2])
DblZero == <<0, 0>>

(***************************************************************************)
(* fixed-point helpers                                                     *)
(***************************************************************************)
RECURSIVE IsqrtBetween(_, _, _)
IsqrtBetween(x, lo, hi) ==
    IF lo >= hi THEN lo
    ELSE CHOOSE root \in {IF mid * mid <= x THEN IsqrtBetween(x, mid, hi)
                          ELSE IsqrtBetween(x, lo, mid - 1) :
                              mid \in {(lo + hi + 1) \div 2}} : TRUE

\* floor of the square root, 0 <= x < 2^31
Isqrt(x) == IsqrtBetween(x, 0, 46340)

ZeroVec == <<0, 0, 0>>
VecAdd(u, v) == <<u[1] + v[1], u[2] + v[2], u[3] + v[3]>>
\* numpy.linalg.norm
Norm(v) == Isqrt(v[1] * v[1] + v[2] * v[2] + v[3] * v[3])


(***************************************************************************)
(* src/core/constants.py                                                   *)
(***************************************************************************)
\* G0 = 9.80665 m/s^2: the weight in micronewtons of a tenth of a kilogram
G0 == 980665
\* ATM_SEA_LEVEL_DENSITY = 1.225 kg/m^3, in g/m^3
ATM_SEA_LEVEL_DENSITY == 1225
\* ATM_SCALE_HEIGHT = 8500.0 m
ATM_SCALE_HEIGHT == 8500
\* TIME_STEP = 0.1 s, the binary64 nearest to 1/10
TIME_STEP == <<1, 2>>
\* SIMULATION_DURATION = 600.0 s
SIMULATION_DURATION == <<6000, 0>>

(***************************************************************************)
(* The configurations explored.  Masses and burn times are whole numbers   *)
(* of halves (kg, s), so that they are exact doubles; thrust is in         *)
(* micronewtons, drag_coefficient in hundredths, cross_sectional_area_m2   *)
(* in cm^2, positions in cm, velocities in cm/s.  direction_exp = -10      *)
(* gives the direction components in units of 1e-10.                       *)
(***************************************************************************)
MaxMassHalfKg == 4
MaxBurnHalfSec == 4
\* the number of latest samples of each list held in the state
SampleWindow == 4

Half(h) == <<5 * h, 0>>

RequiredFields == {"mass.initial", "mass.dry", "engine.thrust_N",
                   "engine.burn_time_s", "aerodynamics.drag_coefficient",
                   "aerodynamics.cross_sectional_area_m2"}

\* thrust of 0 N, the weight of 1 kg, that weight + 0.1 N, and 15 N
Thrusts == {0, 10 * G0, 10 * G0 + 100000, 15000000}

BaseConfig ==
    [file |-> "parsed", absent |-> {},
     initial_mass |-> Half(3), dry_mass |-> Half(2),
     thrust_N |-> 15000000, burn_time_s |-> Half(1),
     drag_coefficient |-> 50, cross_sectional_area_m2 |-> 100,
     initial_state |-> TRUE,
     position_m |-> ZeroVec, velocity_ms |-> ZeroVec,
     initial_direction_vector |-> <<0, 0, 1>>, direction_exp |-> 0]

\* initial - dry is a whole multiple of the burn time (or there is nothing
\* to burn), so that propellant_mass / engine_burn_time is exact
ExactFlow(i, d, b) == b <= 0 \/ i <= d \/ (i - d) % b = 0

MassConfigs ==
    {[BaseConfig EXCEPT !.initial_mass = Half(i), !.dry_mass = Half(d),
                        !.burn_time_s = Half(b), !.thrust_N = th,
                        !.drag_coefficient = cd] :
        <<i, d, b, th, cd>> \in
            {c \in (1..MaxMassHalfKg) \X (1..MaxMassHalfKg) \X (-1..MaxBurnHalfSec)
                   \X Thrusts \X {0, 50} :
                /\ ExactFlow(c[1], c[2], c[3])
                /\ c[5] = 50 => c[4] = 15000000}}

Directions == {<<<<0, 0, 1>>, 0>>, <<<<0, 0, 0>>, 0>>, <<<<3, 0, 4>>, 0>>,
               <<<<1, 0, 0>>, 0>>, <<<<0, 0, -1>>, 0>>, <<<<0, 0, 7>>, 0>>,
               <<<<0, 0, 5>>, -10>>, <<<<0, 0, 10>>, -10>>,
               <<<<0, 0, 11>>, -10>>, <<<<0, 6, 9>>, -10>>,
               <<<<10, 0, 0>>, -10>>, <<<<0, 0, -10>>, -10>>,
               <<<<9, 0, 0>>, -10>>}

DirectionConfigs ==
    {[BaseConfig EXCEPT !.initial_direction_vector = dv[1],
                        !.direction_exp = dv[2], !.thrust_N = th] :
        dv \in Directions, th \in {0, 15000000}}

InitialStateConfigs ==
    {[BaseConfig EXCEPT !.position_m = <<0, 0, z>>, !.velocity_ms = <<vx, 0, vz>>,
                        !.thrust_N = th] :
        z \in {0, -50, -100, -101, -200, 1000}, vx \in {0, 100},
        vz \in {-100, 0, 100}, th \in {0, 15000000}}
    \cup {[BaseConfig EXCEPT !.initial_state = FALSE]}

\* an engine that burns for minutes, carrying no propellant: hovering below
\* ground for 700 s, and climbing slowly from the pad for 590 s
LongBurnConfigs ==
    {[BaseConfig EXCEPT !.initial_mass = Half(2), !.dry_mass = Half(2),
                        !.burn_time_s = Half(c[3]), !.drag_coefficient = 0,
                        !.thrust_N = c[1], !.position_m = <<0, 0, c[2]>>] :
        c \in {<<10 * G0, -50, 1400>>, <<10 * G0, -100, 1200>>,
               <<10 * G0 + 100000, 0, 1180>>}}

UnusableConfigs ==
    {[BaseConfig EXCEPT !.file = f] : f \in {"missing", "unparsable", "empty"}}
    \cup {[BaseConfig EXCEPT !.absent = {f}] : f \in RequiredFields}

Configs == MassConfigs \cup DirectionConfigs \cup InitialStateConfigs
           \cup LongBurnConfigs \cup UnusableConfigs


VARIABLES
    cfg,                        \* the configuration file named by rocket_config_name
    pc,                         \* where run_simulation is: "load", "setup", "loop", "returned", "raised"
    outcome,                    \* what the caller gets: "none", "failure", "arrays", or the exception
    advisories,                 \* the warnings printed so far
    initial_thrust_direction,   \* unit vector, in hundredths
    engine_mass_flow_rate,      \* kg/s
    rocket,                     \* the Rocket object
    current_time,
    times, positions, velocities, masses, altitudes, speeds,
    dropped,                    \* the number of samples older than the window
    thrust_force,               \* the thrust_force of the latest iteration
    update_calls,               \* the number of calls of rocket.update_state
    ended_by                    \* how the while loop was left: "impact" (break) or "condition"

vars == <<cfg, pc, outcome, advisories, initial_thrust_direction,
          engine_mass_flow_rate, rocket, current_time, times, positions,
          velocities, masses, altitudes, speeds, dropped, thrust_force,
          update_calls, ended_by>>

series == <<times, positions, velocities, masses, altitudes, speeds, dropped>>

(***************************************************************************)
(* src/core/atmosphere.py                                                  *)
(***************************************************************************)
\* sea_level_density * exp(-altitude / scale_height) in g/m^3, altitude in
\* cm: the density halves every scale_height * ln 2 metres and is
\* interpolated linearly in between (within 7 % of the exponential).
get_air_density(altitude, sea_level_density, scale_height) ==
    IF altitude < 0 THEN sea_level_density
    ELSE LET halving == (scale_height * 693) \div 1000
             k == (altitude \div 100) \div halving
             r == (altitude \div 100) % halving
         IN  IF k > 11 THEN 0
             ELSE ((sea_level_density \div Pow2(k)) * (2 * halving - r))
                      \div (2 * halving)

(***************************************************************************)
(* src/core/rocket.py                                                      *)
(***************************************************************************)
NoRocket ==
    [mass |-> DblZero, dry_mass |-> DblZero, cross_sectional_area |-> 0,
     position |-> ZeroVec, velocity |-> ZeroVec, acceleration |-> ZeroVec,
     propellant_mass_initial |-> DblZero, current_propellant_mass |-> DblZero,
     warned |-> FALSE]

\* Rocket.__init__ without line 49: the mass is left below the dry mass
RocketInit_KeepsMass(initial_mass, dry_mass, cross_sectional_area, initial_position, initial_velocity) ==
    LET below == DblLt(initial_mass, dry_mass)
        propellant == IF below THEN DblZero ELSE DblSub(initial_mass, dry_mass)
    IN  [mass |-> initial_mass,
         dry_mass |-> dry_mass,
         cross_sectional_area |-> cross_sectional_area,
         position |-> initial_position,
         velocity |-> initial_velocity,
         acceleration |-> ZeroVec,
         propellant_mass_initial |-> propellant,
         current_propellant_mass |-> propellant,
         warned |-> below]

\* Rocket.__init__ without line 48: the propellant is left negative
RocketInit_NegativePropellant(initial_mass, dry_mass, cross_sectional_area, initial_position, initial_velocity) ==
    LET below == DblLt(initial_mass, dry_mass)
        propellant == DblSub(initial_mass, dry_mass)
    IN  [mass |-> IF below THEN dry_mass ELSE initial_mass,
         dry_mass |-> dry_mass,
         cross_sectional_area |-> cross_sectional_area,
         position |-> initial_position,
         velocity |-> initial_velocity,
         acceleration |-> ZeroVec,
         propellant_mass_initial |-> propellant,
         current_propellant_mass |-> propellant,
         warned |-> below]

\* Rocket.__init__
RocketInit(initial_mass, dry_mass, cross_sectional_area, initial_position, initial_velocity) ==
    LET below == DblLt(initial_mass, dry_mass)
        propellant == IF below THEN DblZero ELSE DblSub(initial_mass, dry_mass)
    IN  [mass |-> IF below THEN dry_mass ELSE initial_mass,
         dry_mass |-> dry_mass,
         cross_sectional_area |-> cross_sectional_area,
         position |-> initial_position,
         velocity |-> initial_velocity,
         acceleration |-> ZeroVec,
         propellant_mass_initial |-> propellant,
         current_propellant_mass |-> propellant,
         warned |-> below]

\* Rocket.altitude, Rocket.speed
Altitude(r) == r.position[3]
Speed(r) == Norm(r.velocity)

\* step 4 of update_state: the mass and the propellant after the burn
BurnMass(r, dt, mass_flow_rate) ==
    IF mass_flow_rate > 0 /\ DblLt(DblZero, r.current_propellant_mass)
    THEN LET wanted == DblMulInt(mass_flow_rate, dt)
             clamp  == DblLt(r.current_propellant_mass, wanted)
             mass_consumed == IF clamp THEN r.current_propellant_mass ELSE wanted
             left   == IF clamp THEN DblZero
                       ELSE DblSub(r.current_propellant_mass, wanted)
             m      == DblSub(r.mass, mass_consumed)
         IN  [mass |-> IF DblLt(m, r.dry_mass) THEN r.dry_mass ELSE m,
              current_propellant_mass |-> left]
    ELSE [mass |-> r.mass, current_propellant_mass |-> r.current_propellant_mass]

\* update_state with step 3 before step 2: the position advances by the
\* velocity of before the step (explicit Euler)
update_state_PreStepVelocity(r, dt, total_force, mass_flow_rate) ==
    LET Accel(i) == total_force[i] \div (1000 * r.mass[1])
        acceleration == <<Accel(1), Accel(2), Accel(3)>>
        Vel(i) == r.velocity[i] + (acceleration[i] * dt[1]) \div 10
        velocity == <<Vel(1), Vel(2), Vel(3)>>
        Pos(i) == r.position[i] + (r.velocity[i] * dt[1]) \div 10
        position == <<Pos(1), Pos(2), Pos(3)>>
        burnt == BurnMass(r, dt, mass_flow_rate)
    IN  [r EXCEPT !.acceleration = acceleration,
                  !.velocity = velocity,
                  !.position = position,
                  !.mass = burnt.mass,
                  !.current_propellant_mass = burnt.current_propellant_mass]

\* Rocket.update_state: total_force in micronewtons, mass in tenths of a kg,
\* dt in tenths of a second
update_state(r, dt, total_force, mass_flow_rate) ==
    LET Accel(i) == total_force[i] \div (1000 * r.mass[1])
        acceleration == <<Accel(1), Accel(2), Accel(3)>>
        Vel(i) == r.velocity[i] + (acceleration[i] * dt[1]) \div 10
        velocity == <<Vel(1), Vel(2), Vel(3)>>
        Pos(i) == r.position[i] + (velocity[i] * dt[1]) \div 10
        position == <<Pos(1), Pos(2), Pos(3)>>
        burnt == BurnMass(r, dt, mass_flow_rate)
    IN  [r EXCEPT !.acceleration = acceleration,
                  !.velocity = velocity,
                  !.position = position,
                  !.mass = burnt.mass,
                  !.current_propellant_mass = burnt.current_propellant_mass]


(***************************************************************************)
(* scripts/run_simulation.py                                               *)
(***************************************************************************)
\* load_rocket_config: None for a missing or unparsable file; an empty file
\* parses to None as well
load_rocket_config(c) ==
    IF c.file \in {"missing", "unparsable", "empty"} THEN "None" ELSE "dict"

\* >= 1e-9 in place of > 1e-9
DirectionUsable_Inclusive(c) ==
    LET v == c.initial_direction_vector
        sumsq == v[1] * v[1] + v[2] * v[2] + v[3] * v[3]
    IN  IF c.direction_exp = 0 THEN sumsq > 0 ELSE sumsq >= 100

\* np.linalg.norm(initial_thrust_direction) > 1e-9
DirectionUsable(c) ==
    LET v == c.initial_direction_vector
        sumsq == v[1] * v[1] + v[2] * v[2] + v[3] * v[3]
    IN  IF c.direction_exp = 0 THEN sumsq > 0 ELSE sumsq > 100

\* initial_thrust_direction / dir_magnitude, in hundredths
Normalized(v) ==
    LET m == Isqrt((v[1] * v[1] + v[2] * v[2] + v[3] * v[3]) * 10000)
    IN  <<(v[1] * 10000) \div m, (v[2] * 10000) \div m, (v[3] * 10000) \div m>>

default_initial_direction == <<0, 0, 100>>

\* lines 120-131: the thrust direction of the run
ThrustDirection(c) ==
    LET v == IF c.initial_state THEN c.initial_direction_vector ELSE <<0, 0, 1>>
    IN  IF ~c.initial_state THEN default_initial_direction
        ELSE IF DirectionUsable(c) THEN Normalized(v)
        ELSE default_initial_direction

\* effective_vertical_thrust > initial_weight in place of <
InsufficientThrust_Reversed(c, direction) ==
    (c.thrust_N * direction[3]) \div 100 > c.initial_mass[1] * G0

\* lines 135-143: effective_vertical_thrust < initial_weight
InsufficientThrust(c, direction) ==
    (c.thrust_N * direction[3]) \div 100 < c.initial_mass[1] * G0

\* line 107
MassFlowRate(c) ==
    IF c.burn_time_s[1] > 0
    THEN (c.initial_mass[1] - c.dry_mass[1]) \div c.burn_time_s[1]
    ELSE 0

\* current_time < engine_burn_time in place of <=
ThrustForce_Exclusive(c, direction, t) ==
    IF DblLt(t, c.burn_time_s)
    THEN <<(direction[1] * c.thrust_N) \div 100, (direction[2] * c.thrust_N) \div 100,
           (direction[3] * c.thrust_N) \div 100>>
    ELSE ZeroVec

\* lines 193-196
ThrustForce(c, direction, t) ==
    IF DblLeq(t, c.burn_time_s)
    THEN <<(direction[1] * c.thrust_N) \div 100, (direction[2] * c.thrust_N) \div 100,
           (direction[3] * c.thrust_N) \div 100>>
    ELSE ZeroVec

\* line 200
GravityForce(r) == <<0, 0, -(r.mass[1] * G0)>>

\* lines 204-214: 0.5 * rho * speed^2 * Cd * A opposite to the velocity
DragForce(c, r) ==
    LET rho == get_air_density(Altitude(r), ATM_SEA_LEVEL_DENSITY, ATM_SCALE_HEIGHT)
        speed == Speed(r)
        drag_magnitude ==
            IF speed > 0
            THEN (((((speed * speed) \div 100) * rho) \div 1000)
                    * ((c.drag_coefficient * r.cross_sectional_area) \div 100)) \div 2
            ELSE 0
    IN  IF speed > 0
        THEN <<-((drag_magnitude \div speed) * r.velocity[1]),
               -((drag_magnitude \div speed) * r.velocity[2]),
               -((drag_magnitude \div speed) * r.velocity[3])>>
        ELSE ZeroVec

\* line 221
CurrentMassFlowRate(c, rate, t) == IF DblLeq(t, c.burn_time_s) THEN rate ELSE 0

\* altitude >= 0 in place of altitude >= -1.0
LoopCondition_AboveGround(t, r) ==
    DblLt(t, SIMULATION_DURATION) /\ Altitude(r) >= 0

\* current_time < SIMULATION_DURATION + TIME_STEP in place of < SIMULATION_DURATION
LoopCondition_OneMoreStep(t, r) ==
    DblLt(t, DblAdd(SIMULATION_DURATION, TIME_STEP)) /\ Altitude(r) >= -100

\* line 188
LoopCondition(t, r) == DblLt(t, SIMULATION_DURATION) /\ Altitude(r) >= -100

\* line 238 with the loop's ground tolerance in place of the ground
Impact_GroundTolerance(r) == Altitude(r) <= -100 /\ r.velocity[3] < 0

\* velocity[2] > 0 in place of velocity[2] < 0
Impact_Ascending(r) == Altitude(r) <= 0 /\ r.velocity[3] > 0

\* velocity[2] <= 0 in place of velocity[2] < 0
Impact_NotAscending(r) == Altitude(r) <= 0 /\ r.velocity[3] <= 0

\* the loop without the impact check of lines 238-240
Impact_NoBreak(r) == FALSE

\* line 238
Impact(r) == Altitude(r) <= 0 /\ r.velocity[3] < 0

\* positions.append(rocket.position): every entry of the list is the one
\* array that update_state changes in place
AppendAlias(list, value) == [i \in 1..(Len(list) + 1) |-> value]

\* positions.append(rocket.position.copy()): the list gets a copy of its own
AppendCopy(list, value) == Append(list, value)

\* the latest SampleWindow entries of a list
Window(list) == IF Len(list) > SampleWindow THEN Tail(list) ELSE list


(***************************************************************************)
(* run_simulation as a state machine                                       *)
(***************************************************************************)
Init ==
    /\ cfg \in Configs
    /\ pc = "load"
    /\ outcome = "none"
    /\ advisories = {}
    /\ initial_thrust_direction = default_initial_direction
    /\ engine_mass_flow_rate = 0
    /\ rocket = NoRocket
    /\ current_time = DblZero
    /\ times = <<>> /\ positions = <<>> /\ velocities = <<>>
    /\ masses = <<>> /\ altitudes = <<>> /\ speeds = <<>>
    /\ dropped = 0
    /\ thrust_force = ZeroVec
    /\ update_calls = 0
    /\ ended_by = "none"

\* lines 85-89: load the file; without a configuration return the six Nones
LoadConfig ==
    /\ pc = "load"
    /\ IF load_rocket_config(cfg) = "None"
       THEN pc' = "returned" /\ outcome' = "failure"
       ELSE pc' = "setup" /\ outcome' = outcome
    /\ UNCHANGED <<cfg, advisories, initial_thrust_direction, engine_mass_flow_rate,
                   rocket, current_time, series, thrust_force, update_calls,
                   ended_by>>

\* lines 93-102: a required field that is not in the file raises KeyError
SetupRaises ==
    /\ pc = "setup"
    /\ cfg.absent # {}
    /\ pc' = "raised"
    /\ outcome' = "KeyError"
    /\ UNCHANGED <<cfg, advisories, initial_thrust_direction, engine_mass_flow_rate,
                   rocket, current_time, series, thrust_force, update_calls,
                   ended_by>>

\* lines 93-182: parameters, thrust direction, pre-flight check, the Rocket
\* and sample 0
Setup ==
    /\ pc = "setup"
    /\ cfg.absent = {}
    /\ LET direction == ThrustDirection(cfg)
           r == RocketInit(cfg.initial_mass, cfg.dry_mass,
                           cfg.cross_sectional_area_m2,
                           IF cfg.initial_state THEN cfg.position_m ELSE ZeroVec,
                           IF cfg.initial_state THEN cfg.velocity_ms ELSE ZeroVec)
       IN  /\ initial_thrust_direction' = direction
           /\ engine_mass_flow_rate' = MassFlowRate(cfg)
           /\ advisories' =
                  (IF cfg.initial_state /\ ~DirectionUsable(cfg)
                   THEN {"invalid direction"} ELSE {})
                  \cup (IF InsufficientThrust(cfg, direction)
                        THEN {"insufficient thrust"} ELSE {})
                  \cup (IF r.warned THEN {"initial mass below dry mass"} ELSE {})
           /\ rocket' = r
           /\ current_time' = DblZero
           /\ times' = <<DblZero>>
           /\ positions' = AppendCopy(<<>>, r.position)
           /\ velocities' = AppendCopy(<<>>, r.velocity)
           /\ masses' = <<r.mass>>
           /\ altitudes' = <<Altitude(r)>>
           /\ speeds' = <<Speed(r)>>
           /\ dropped' = 0
    /\ pc' = "loop"
    /\ UNCHANGED <<cfg, outcome, thrust_force, update_calls, ended_by>>

\* lines 188-240: one iteration of the while loop; each local of the
\* iteration is computed once and bound to its value
Step ==
    /\ pc = "loop"
    /\ LoopCondition(current_time, rocket)
    /\ \E thrust \in {ThrustForce(cfg, initial_thrust_direction, current_time)} :
       \E total_force \in {VecAdd(VecAdd(thrust, GravityForce(rocket)),
                                  DragForce(cfg, rocket))} :
       \E rate \in {CurrentMassFlowRate(cfg, engine_mass_flow_rate, current_time)} :
       \E r \in {update_state(rocket, TIME_STEP, total_force, rate)} :
       \E t \in {DblAdd(current_time, TIME_STEP)} :
           /\ thrust_force' = thrust
           /\ rocket' = r
           /\ update_calls' = update_calls + 1
           /\ current_time' = t
           /\ times' = Window(Append(times, t))
           /\ positions' = Window(AppendCopy(positions, r.position))
           /\ velocities' = Window(AppendCopy(velocities, r.velocity))
           /\ masses' = Window(Append(masses, r.mass))
           /\ altitudes' = Window(Append(altitudes, Altitude(r)))
           /\ speeds' = Window(Append(speeds, Speed(r)))
           /\ dropped' = IF Len(times) + 1 > SampleWindow THEN dropped + 1 ELSE dropped
           /\ IF Impact(r)
              THEN pc' = "returned" /\ ended_by' = "impact" /\ outcome' = "arrays"
              ELSE pc' = "loop" /\ ended_by' = ended_by /\ outcome' = outcome
    /\ UNCHANGED <<cfg, advisories, initial_thrust_direction, engine_mass_flow_rate>>

\* line 188 false, then lines 244-245
LoopExit ==
    /\ pc = "loop"
    /\ ~LoopCondition(current_time, rocket)
    /\ pc' = "returned"
    /\ ended_by' = "condition"
    /\ outcome' = "arrays"
    /\ UNCHANGED <<cfg, advisories, initial_thrust_direction, engine_mass_flow_rate,
                   rocket, current_time, series, thrust_force, update_calls>>

Next == LoadConfig \/ SetupRaises \/ Setup \/ Step \/ LoopExit

Spec == Init /\ [][Next]_vars

\* run_simulation is sequential code: a statement that can run does run
FairSpec == Spec /\ WF_vars(Next)


(***************************************************************************)
(* Properties                                                              *)
(***************************************************************************)
Last(list) == list[Len(list)]
\* the output's number of the sample at place i of the window
SampleNo(i) == dropped + i - 1
Recorded == dropped + Len(times)

\* C1: over the whole recorded sample sequence the mass never increases
\* from one sample to the next, and no sample has a mass below dry_mass.
C1_MassNonIncreasingAboveDry ==
    \A i \in 1..Len(masses) :
        /\ DblLeq(rocket.dry_mass, masses[i])
        /\ i > 1 => DblLeq(masses[i], masses[i - 1])

\* a run in its burn: every sample in the window is lighter than the one
\* before it, and the rocket has not burnt out yet
C1_Witness ==
    /\ pc = "loop"
    /\ Recorded >= 5
    /\ \A i \in 2..Len(masses) : DblLt(masses[i], masses[i - 1])
    /\ DblLt(rocket.dry_mass, Last(masses))

\* C2: after construction and after every update_state the propellant is
\* >= 0 and no larger than before the call, and propellant = 0 implies
\* mass = dry_mass.
C2_PropellantInvariants ==
    [][(pc \in {"setup", "loop"} /\ pc' \in {"loop", "returned"}) =>
          /\ DblLeq(DblZero, rocket'.current_propellant_mass)
          /\ pc = "loop" => DblLeq(rocket'.current_propellant_mass,
                                   rocket.current_propellant_mass)
          /\ rocket'.current_propellant_mass = DblZero
                => rocket'.mass = rocket'.dry_mass]_vars

\* C3: a step that leaves the rocket at or below the ground and descending
\* has its sample recorded as the last one and ends the loop at once; no
\* sample strictly between the first and the last is such a sample.
C3_ImpactSampleIsLast ==
    /\ \A i \in 1..(Len(times) - 1) :
          SampleNo(i) >= 1 => ~(altitudes[i] <= 0 /\ velocities[i][3] < 0)
    /\ (update_calls > 0 /\ rocket.position[3] <= 0 /\ rocket.velocity[3] < 0)
          => /\ pc = "returned" /\ ended_by = "impact"
             /\ Recorded = update_calls + 1
             /\ Last(positions) = rocket.position
             /\ Last(velocities) = rocket.velocity
             /\ Last(altitudes) = rocket.position[3]

\* a flight of several samples that ended with the impact sample
C3_Witness ==
    /\ pc = "returned" /\ ended_by = "impact"
    /\ Recorded >= 6
    /\ altitudes[Len(altitudes) - 1] > 0
    /\ Last(altitudes) <= 0 /\ Last(velocities)[3] < 0


\* C4 as claimed: whenever the loop ends because its condition is false, the
\* time of the last sample has reached SIMULATION_DURATION.
C4_ConditionExitIsDurationExceeded ==
    (pc = "returned" /\ ended_by = "condition")
        => DblLeq(SIMULATION_DURATION, Last(times))

\* C4 as amended: the loop ends by its condition either with the time of
\* the last sample at or past SIMULATION_DURATION, or before its first
\* iteration because the initial altitude is already below -1.0 m.
C4_ConditionExitIsDurationOrBelowGround ==
    (pc = "returned" /\ ended_by = "condition")
        => \/ DblLeq(SIMULATION_DURATION, Last(times))
           \/ /\ update_calls = 0 /\ Recorded = 1
              /\ Last(times) = DblZero
              /\ altitudes[1] < -100

\* a run that started below ground level and lasted the whole duration
C4_Witness ==
    /\ pc = "returned" /\ ended_by = "condition"
    /\ cfg.position_m[3] < 0
    /\ update_calls > 0
    /\ DblLeq(SIMULATION_DURATION, Last(times))

\* the rocket of claim C5: at rest on the ground, thrust straight up and
\* above the initial weight, a positive burn time
LiftOffConfig ==
    /\ cfg.position_m = ZeroVec /\ cfg.velocity_ms = ZeroVec
    /\ initial_thrust_direction = <<0, 0, 100>>
    /\ cfg.thrust_N > cfg.initial_mass[1] * G0
    /\ DblLt(DblZero, cfg.burn_time_s)

\* C5 as claimed: such a run ends by the impact break, descending at or
\* below the ground.
C5_LiftOffEndsByImpact ==
    (pc = "returned" /\ outcome = "arrays" /\ LiftOffConfig)
        => /\ ended_by = "impact"
           /\ Last(velocities)[3] < 0 /\ Last(altitudes) <= 0

\* C5 as amended: such a run ends by the impact break, descending at or
\* below the ground, unless SIMULATION_DURATION is reached first: then it
\* ends by the loop condition with the last sample's time at or past it.
C5_LiftOffEndsByImpactOrDuration ==
    (pc = "returned" /\ outcome = "arrays" /\ LiftOffConfig)
        => \/ /\ ended_by = "impact"
              /\ Last(velocities)[3] < 0 /\ Last(altitudes) <= 0
           \/ /\ ended_by = "condition"
              /\ DblLeq(SIMULATION_DURATION, Last(times))
              /\ ~(Last(velocities)[3] < 0 /\ Last(altitudes) <= 0)

\* a rocket that lifted off, burnt out, came down and hit the ground
C5_Witness ==
    /\ pc = "returned" /\ LiftOffConfig
    /\ ended_by = "impact"
    /\ Recorded >= 10
    /\ DblLt(cfg.burn_time_s, Last(times))
    /\ altitudes[Len(altitudes) - 1] > 0
    /\ Last(velocities)[3] < 0 /\ Last(altitudes) <= 0

\* C6: with mass.initial < mass.dry every sample has mass = dry_mass and the
\* propellant is 0 at construction and after every step.
C6_InitialBelowDryStaysAtDry ==
    (DblLt(cfg.initial_mass, cfg.dry_mass) /\ Len(masses) > 0)
        => /\ \A i \in 1..Len(masses) : masses[i] = cfg.dry_mass
           /\ rocket.mass = cfg.dry_mass
           /\ rocket.current_propellant_mass = DblZero

\* such a run during the burn window, where the loop's mass flow rate is
\* computed from the negative propellant mass
C6_Witness ==
    /\ DblLt(cfg.initial_mass, cfg.dry_mass)
    /\ DblLt(DblZero, cfg.burn_time_s)
    /\ update_calls >= 2
    /\ DblLeq(current_time, cfg.burn_time_s)
    /\ engine_mass_flow_rate < 0
    /\ Last(masses) = cfg.dry_mass


\* the configuration record is unusable: no file, no parse, nothing in the
\* file, or a required field is not there
Unusable(c) == c.file # "parsed" \/ c.absent # {}

\* C7: for every unusable configuration run_simulation returns the failure
\* result (six Nones), no exception escapes and the loop runs no step.
C7_UnusableConfigReturnsFailure ==
    Unusable(cfg) =>
        /\ pc # "raised"
        /\ pc \in {"returned", "raised"} => outcome = "failure"
        /\ update_calls = 0 /\ Len(times) = 0

\* the magnitude of the configured direction vector against 1e-9
SumSq(c) ==
    LET v == c.initial_direction_vector
    IN  v[1] * v[1] + v[2] * v[2] + v[3] * v[3]
MagnitudeBelowThreshold(c) ==
    IF c.direction_exp = 0 THEN SumSq(c) = 0 ELSE SumSq(c) < 100
MagnitudeAtThreshold(c) == c.direction_exp = -10 /\ SumSq(c) = 100

\* the thrust direction is in force in the steps that apply thrust
DirectionInForce(direction) ==
    /\ initial_thrust_direction = direction
    /\ (update_calls > 0 /\ DblLeq(times[Len(times) - 1], cfg.burn_time_s))
          => thrust_force = <<(direction[1] * cfg.thrust_N) \div 100,
                              (direction[2] * cfg.thrust_N) \div 100,
                              (direction[3] * cfg.thrust_N) \div 100>>

\* C8 as claimed: a direction vector of magnitude below 1e-9 gives the
\* thrust direction [0,0,1] in every step, with an advisory and a run that
\* starts; every other vector gives the vector scaled to unit length.
C8_DirectionBelowThresholdDefaults ==
    (cfg.initial_state /\ Len(times) > 0) =>
        IF MagnitudeBelowThreshold(cfg)
        THEN /\ DirectionInForce(<<0, 0, 100>>)
             /\ "invalid direction" \in advisories
             /\ pc \in {"loop", "returned"} /\ outcome # "failure"
        ELSE DirectionInForce(Normalized(cfg.initial_direction_vector))

\* C8 as amended: a direction vector of magnitude at or below 1e-9 gives
\* the thrust direction [0,0,1] in every step, with an advisory and a run
\* that starts; every vector of magnitude above 1e-9 gives the vector
\* scaled to unit length, with no such advisory.
C8_DirectionAtOrBelowThresholdDefaults ==
    (cfg.initial_state /\ Len(times) > 0) =>
        IF MagnitudeBelowThreshold(cfg) \/ MagnitudeAtThreshold(cfg)
        THEN /\ DirectionInForce(<<0, 0, 100>>)
             /\ "invalid direction" \in advisories
             /\ pc \in {"loop", "returned"} /\ outcome # "failure"
        ELSE /\ DirectionInForce(Normalized(cfg.initial_direction_vector))
             /\ "invalid direction" \notin advisories

\* a run with the zero vector configured that has applied vertical thrust
C8_Witness ==
    /\ cfg.initial_state /\ cfg.initial_direction_vector = <<0, 0, 0>>
    /\ cfg.thrust_N > 0
    /\ update_calls >= 2
    /\ "invalid direction" \in advisories
    /\ thrust_force = <<0, 0, cfg.thrust_N>>

\* the lists after a step: every entry that stays in the window is what it
\* was, and one entry is added at the end
Extended(old, new) ==
    LET off == IF Len(old) + 1 > SampleWindow THEN 1 ELSE 0
    IN  /\ Len(new) = Len(old) + 1 - off
        /\ \A i \in (1 + off)..Len(old) : new[i - off] = old[i]

SixSeries == <<times, positions, velocities, masses, altitudes, speeds>>

\* sample 0 is the configured initial state at t = 0
SampleZeroIsInitialState ==
    (dropped = 0 /\ Len(times) > 0) =>
        /\ times[1] = DblZero
        /\ positions[1] = (IF cfg.initial_state THEN cfg.position_m ELSE ZeroVec)
        /\ velocities[1] = (IF cfg.initial_state THEN cfg.velocity_ms ELSE ZeroVec)
        /\ masses[1] = (IF DblLt(cfg.initial_mass, cfg.dry_mass)
                        THEN cfg.dry_mass ELSE cfg.initial_mass)
        /\ altitudes[1] = positions[1][3]
        /\ speeds[1] = Norm(velocities[1])

\* one sample per step and the initial one, in each of the six lists
OneSamplePerStep ==
    Len(times) > 0 =>
        \A j \in 1..6 : dropped + Len(SixSeries[j]) = update_calls + 1

\* the lists only grow, at the end, by one entry for a step
AppendOnly ==
    /\ update_calls' = update_calls + 1 =>
          /\ Extended(times, times') /\ Extended(positions, positions')
          /\ Extended(velocities, velocities') /\ Extended(masses, masses')
          /\ Extended(altitudes, altitudes') /\ Extended(speeds, speeds')
    /\ (update_calls' = update_calls /\ Len(times) > 0) =>
          SixSeries' = SixSeries /\ dropped' = dropped

\* C9 as claimed: sample 0 is the initial state at t = 0, n steps give
\* n + 1 samples in each list, sample k carries the time k * TIME_STEP, and
\* a step leaves the earlier samples as they were.
C9_SamplesAppendOnlyAtMultiplesOfStep ==
    [][/\ SampleZeroIsInitialState' /\ OneSamplePerStep' /\ AppendOnly
       /\ \A i \in 1..Len(times') :
              times'[i] = DblMulInt(dropped' + i - 1, TIME_STEP)]_vars

\* C9 as amended: sample 0 is the initial state at t = 0, n steps give
\* n + 1 samples in each list, sample k carries the time that k floating
\* point additions of TIME_STEP to 0.0 give, which is within 1e-10 s of
\* k/10 s, and a step leaves the earlier samples as they were.
C9_SamplesAppendOnlyAtSummedSteps ==
    [][/\ SampleZeroIsInitialState' /\ OneSamplePerStep' /\ AppendOnly
       /\ \A i \in 1..Len(times') :
              /\ times'[i][1] = dropped' + i - 1
              /\ times'[i][2] > -36028797 /\ times'[i][2] < 36028797
              /\ i > 1 => times'[i] = DblAdd(times'[i - 1], TIME_STEP)]_vars

\* a moving rocket with more samples than the window holds, the older ones
\* different from the newest
C9_Witness ==
    /\ update_calls >= 6 /\ dropped >= 3
    /\ Len(positions) = SampleWindow
    /\ positions[1] # Last(positions)
    /\ velocities[1] # Last(velocities)
    /\ masses[1] # Last(masses)

\* the thrust vector of direction d
ThrustVector(d) ==
    <<(d[1] * cfg.thrust_N) \div 100, (d[2] * cfg.thrust_N) \div 100,
      (d[3] * cfg.thrust_N) \div 100>>

\* C10: a step's thrust force is direction * thrust_N exactly when the time
\* before the step is <= burn_time_s, and the zero vector otherwise; after
\* a step without thrust every step is without thrust; with a negative
\* burn time no step has thrust.
C10_ThrustWhileWithinBurnTime ==
    [][update_calls' = update_calls + 1 =>
          /\ thrust_force' = (IF DblLeq(current_time, cfg.burn_time_s)
                              THEN ThrustVector(initial_thrust_direction)
                              ELSE ZeroVec)
          /\ current_time = Last(times)
          /\ (update_calls > 0 /\ thrust_force = ZeroVec) => thrust_force' = ZeroVec
          /\ cfg.burn_time_s[1] < 0 => thrust_force' = ZeroVec]_vars

\* the step taken at exactly t = burn_time_s, with thrust, and the next
\* one without
C10_Witness ==
    /\ update_calls >= 3
    /\ cfg.thrust_N > 0
    /\ times[Len(times) - 2] = cfg.burn_time_s
    /\ DblLt(DblZero, cfg.burn_time_s)
    /\ thrust_force = ZeroVec

\* the net force and the mass flow rate that the next iteration passes to
\* update_state
StepForce ==
    VecAdd(VecAdd(ThrustForce(cfg, initial_thrust_direction, current_time),
                  GravityForce(rocket)),
           DragForce(cfg, rocket))
StepRate == CurrentMassFlowRate(cfg, engine_mass_flow_rate, current_time)
DblMin(a, b) == IF DblLt(b, a) THEN b ELSE a
DblMax(a, b) == IF DblLt(a, b) THEN b ELSE a

\* C11: update_state(dt, F, r) is a semi-implicit Euler step: the new
\* acceleration is F / mass with the mass of before the call, the new
\* velocity is velocity + acceleration' * dt, the new position is
\* position + velocity' * dt with the velocity just computed, and then,
\* when r > 0 and propellant > 0, mass' = max(dry_mass, mass - min(r * dt,
\* propellant)) and propellant' = propellant - min(r * dt, propellant);
\* otherwise mass and propellant are unchanged.
C11_SemiImplicitEulerStep ==
    [][update_calls' = update_calls + 1 =>
          LET F  == StepForce
              dt == TIME_STEP
              A(i) == F[i] \div (1000 * rocket.mass[1])
              V(i) == rocket.velocity[i] + (A(i) * dt[1]) \div 10
              P(i) == rocket.position[i] + (V(i) * dt[1]) \div 10
              consumed == DblMin(DblMulInt(StepRate, dt),
                                 rocket.current_propellant_mass)
          IN  /\ rocket'.acceleration = <<A(1), A(2), A(3)>>
              /\ rocket'.velocity = <<V(1), V(2), V(3)>>
              /\ rocket'.position = <<P(1), P(2), P(3)>>
              /\ IF StepRate > 0 /\ DblLt(DblZero, rocket.current_propellant_mass)
                 THEN /\ rocket'.mass =
                            DblMax(rocket.dry_mass, DblSub(rocket.mass, consumed))
                      /\ rocket'.current_propellant_mass =
                            DblSub(rocket.current_propellant_mass, consumed)
                 ELSE /\ rocket'.mass = rocket.mass
                      /\ rocket'.current_propellant_mass =
                            rocket.current_propellant_mass]_vars

\* steps that accelerated a moving rocket and moved it by the velocity just
\* computed, the mass falling in the step before the last and no
\* propellant left after the last
C11_Witness ==
    /\ update_calls >= 3
    /\ Len(masses) >= 3
    /\ rocket.acceleration[3] # 0
    /\ velocities[Len(velocities) - 1][3] # 0
    /\ rocket.velocity # velocities[Len(velocities) - 1]
    /\ Last(positions)[3] - positions[Len(positions) - 1][3]
           # (velocities[Len(velocities) - 1][3] * TIME_STEP[1]) \div 10
    /\ DblLt(masses[Len(masses) - 1], masses[Len(masses) - 2])
    /\ DblLt(DblZero, rocket.propellant_mass_initial)
    /\ rocket.current_propellant_mass = DblZero

\* thrust equal to the weight for the whole run, no propellant, at rest at
\* most 1 m below the ground
HoverUnderground(c) ==
    /\ c.file = "parsed" /\ c.absent = {} /\ c.initial_state
    /\ c.position_m[3] < 0 /\ c.position_m[3] >= -100
    /\ c.velocity_ms = ZeroVec
    /\ c.initial_direction_vector = <<0, 0, 1>> /\ c.direction_exp = 0
    /\ c.initial_mass = c.dry_mass
    /\ c.thrust_N = c.initial_mass[1] * G0
    /\ DblLeq(SIMULATION_DURATION, c.burn_time_s)

\* C12: there are runs that end by the duration limit while underground.
\* A rocket that starts at rest between -1.0 m and the ground with a thrust
\* that balances its weight for the whole run has, after every step, a
\* negative altitude and a vertical velocity that is not negative, so the
\* impact check never fires; its run ends by the loop condition with
\* t >= SIMULATION_DURATION and a last sample below the ground.
C12_HoverUndergroundEndsByDuration ==
    (HoverUnderground(cfg) /\ pc \in {"loop", "returned"}) =>
        /\ Altitude(rocket) < 0
        /\ rocket.velocity[3] >= 0
        /\ ended_by # "impact"
        /\ pc = "returned" =>
              /\ ended_by = "condition"
              /\ outcome = "arrays"
              /\ DblLeq(SIMULATION_DURATION, Last(times))
              /\ Last(altitudes) < 0

\* the end of such a run: one step per TIME_STEP up to the duration limit,
\* the last sample below the ground
C12_Witness ==
    /\ HoverUnderground(cfg)
    /\ pc = "returned"
    /\ ended_by = "condition"
    /\ update_calls > 1
    /\ Recorded = update_calls + 1
    /\ DblLeq(SIMULATION_DURATION, current_time)
    /\ Last(altitudes) < 0
    /\ Last(velocities)[3] >= 0

\* ceil(SIMULATION_DURATION / TIME_STEP), on the tenths of a second
MaxSteps == (SIMULATION_DURATION[1] + TIME_STEP[1] - 1) \div TIME_STEP[1]

\* C13: every run terminates; the loop executes at most
\* ceil(SIMULATION_DURATION / TIME_STEP) steps, the time of the last sample
\* is below SIMULATION_DURATION + TIME_STEP, and the loop stops only by the
\* duration limit, the altitude guard or the impact break.
C13_LoopTerminatesWithinMaxSteps ==
    /\ [](/\ update_calls <= MaxSteps
          /\ times # <<>> =>
                DblLt(Last(times), DblAdd(SIMULATION_DURATION, TIME_STEP))
          /\ (pc = "returned" /\ outcome = "arrays") =>
                \/ ended_by = "impact" /\ Last(altitudes) <= 0
                                       /\ Last(velocities)[3] < 0
                \/ ended_by = "condition"
                     /\ \/ DblLeq(SIMULATION_DURATION, current_time)
                        \/ Altitude(rocket) < -100)
    /\ <>(pc \in {"returned", "raised"})

\* a run from the pad that took every one of the MaxSteps steps and was
\* stopped by the duration limit
C13_Witness ==
    /\ pc = "returned"
    /\ cfg.position_m[3] = 0
    /\ update_calls = MaxSteps
    /\ ended_by = "condition"
    /\ DblLeq(SIMULATION_DURATION, Last(times))
    /\ Last(altitudes) > 0

\* C14: once a step has run, the altitude guard never stops the loop.  A
\* step that takes the altitude from >= -1.0 to below -1.0 ends with a
\* vertical velocity < 0 and is stopped by the impact break in the same
\* iteration; a run of at least one step that did not end by impact has
\* t >= SIMULATION_DURATION; the guard ends a run only when the initial
\* altitude is below -1.0, after zero steps and with one sample.
C14_GuardStopsOnlyBeforeFirstStep ==
    [][/\ (/\ update_calls' = update_calls + 1
           /\ Altitude(rocket) >= -100
           /\ Altitude(rocket') < -100) =>
              /\ rocket'.velocity[3] < 0
              /\ pc' = "returned"
              /\ ended_by' = "impact"
       /\ (pc' = "returned" /\ ended_by' = "condition" /\ update_calls' >= 1) =>
              /\ DblLeq(SIMULATION_DURATION, current_time')
              /\ Altitude(rocket') >= -100
       /\ (pc' = "returned" /\ ended_by' = "condition"
              /\ DblLt(current_time', SIMULATION_DURATION)) =>
              /\ update_calls' = 0
              /\ dropped' = 0 /\ Len(times') = 1
              /\ cfg.initial_state /\ cfg.position_m[3] < -100]_vars

\* a step from an altitude within the tolerance to one below it, stopped
\* by the impact break
C14_Witness ==
    /\ pc = "returned"
    /\ ended_by = "impact"
    /\ Len(altitudes) >= 2
    /\ altitudes[Len(altitudes) - 1] >= -100
    /\ Last(altitudes) < -100
    /\ Last(velocities)[3] < 0

\* floor(burn_time_s / TIME_STEP) + 1, on the tenths of a second
BurnSteps(c) == c.burn_time_s[1] \div TIME_STEP[1] + 1

\* C15: with burn_time_s > 0 and mass.initial > mass.dry the burn window
\* covers floor(burn_time_s / TIME_STEP) + 1 steps and the propellant is
\* exhausted by the last thrusting step: every sample with a time
\* t > burn_time_s has no propellant left and mass == dry_mass, and the mass
\* is constant from then on.  With burn_time_s <= 0 the mass of every
\* sample is the mass of sample 0.
C15_PropellantExhaustedAfterBurn ==
    (pc \in {"loop", "returned"} /\ outcome # "failure") =>
        IF DblLt(DblZero, cfg.burn_time_s)
        THEN DblLt(cfg.dry_mass, cfg.initial_mass) =>
                /\ \A i \in 2..Len(times) :
                      (DblLeq(times[i - 1], cfg.burn_time_s)
                         /\ DblLt(cfg.burn_time_s, times[i])) =>
                            SampleNo(i) = BurnSteps(cfg)
                /\ \A i \in 1..Len(times) :
                      DblLt(cfg.burn_time_s, times[i]) => masses[i] = cfg.dry_mass
                /\ DblLt(cfg.burn_time_s, Last(times)) =>
                      /\ rocket.current_propellant_mass = DblZero
                      /\ rocket.mass = cfg.dry_mass
        ELSE \A i \in 1..Len(masses) :
                masses[i] = (IF DblLt(cfg.initial_mass, cfg.dry_mass)
                             THEN cfg.dry_mass ELSE cfg.initial_mass)

\* the rocket starts at rest at altitude 0
AtRestOnPad(c) ==
    c.initial_state => (c.position_m[3] = 0 /\ c.velocity_ms = ZeroVec)

\* C16: when the insufficient-thrust advisory applies and the rocket starts
\* at rest at altitude 0, the simulation still runs and ends after exactly
\* one step: the first step leaves a vertical velocity < 0 and an altitude
\* < 0, the impact break fires, and the output has exactly two samples, at
\* t = 0 and t = TIME_STEP.
C16_InsufficientThrustEndsAfterOneStep ==
    ("insufficient thrust" \in advisories /\ AtRestOnPad(cfg)) =>
        /\ pc \in {"loop", "returned"}
        /\ update_calls <= 1
        /\ pc = "loop" => (update_calls = 0 /\ LoopCondition(current_time, rocket))
        /\ pc = "returned" =>
              /\ update_calls = 1
              /\ outcome = "arrays"
              /\ ended_by = "impact"
              /\ rocket.velocity[3] < 0
              /\ Altitude(rocket) < 0
              /\ dropped = 0
              /\ times = <<DblZero, TIME_STEP>>
              /\ Len(positions) = 2 /\ Len(velocities) = 2 /\ Len(masses) = 2
              /\ Len(altitudes) = 2 /\ Len(speeds) = 2
              /\ altitudes[1] = 0 /\ altitudes[2] < 0
              /\ velocities[1] = ZeroVec /\ velocities[2][3] < 0

\* an engine that thrusts upwards, but with less than the weight: the run
\* after its one step
C16_Witness ==
    /\ "insufficient thrust" \in advisories
    /\ AtRestOnPad(cfg)
    /\ cfg.thrust_N > 0
    /\ initial_thrust_direction[3] > 0
    /\ thrust_force[3] > 0
    /\ pc = "returned"
    /\ update_calls = 1
    /\ ended_by = "impact"
    /\ Recorded = 2

=============================================================================
